---- MODULE Spec2Model ----
(***************************************************************************)
(* On-call scheduler: the request handler of backend/main.py and the       *)
(* OnCallScheduler of backend/scheduler.py.                                *)
(*                                                                         *)
(* A date string "YYYY-MM-DD" is modelled by the triple <<Y, M, D>> of its *)
(* three numeric fields; a date object by its proleptic Gregorian ordinal  *)
(* (datetime.date.toordinal).  Staff are indexed 1..n (the code: 0..n-1),  *)
(* days 0..num_days-1 as in the code.                                      *)
(***************************************************************************)
EXTENDS Integers, Sequences, FiniteSets, TLC

\* ------------------------------------------------------------- bounds
\* Largest target_shifts of a staff entry in a request.
MaxTarget == 3
\* Days of the block the decoder is applied to on its own.
DecodeDays == 2
\* Largest id of a row of the staff table.
MaxId == 2

\* -------------------------------------------------- program constants
MinNumDays == 7
MaxNumDays == 90
MinTargetShifts == 1
FRIDAY == 4
SATURDAY == 5
SUNDAY == 6
\* datetime.date.max.toordinal(): 9999-12-31
MaxOrdinal == 3652059

valid_roles == {"Junior", "Intermediate", "Senior"}

Max(a, b) == IF a >= b THEN a ELSE b
MinOf(S) == CHOOSE m \in S : \A k \in S : m <= k
MaxOf(S) == CHOOSE m \in S : \A k \in S : m >= k

\* ------------------------------------------------------ calendar model
IsLeap(y) == (y % 4 = 0) /\ ((y % 100 # 0) \/ (y % 400 = 0))

DaysInMonth(y, m) ==
    IF m = 2 THEN (IF IsLeap(y) THEN 29 ELSE 28)
    ELSE IF m \in {4, 6, 9, 11} THEN 30 ELSE 31

DaysBeforeYear(y) ==
    (y - 1) * 365 + ((y - 1) \div 4) - ((y - 1) \div 100) + ((y - 1) \div 400)

\* The days of the year before month m (month 13: the whole year).
DaysBeforeMonth(y, m) ==
    <<0, 31, 59, 90, 120, 151, 181, 212, 243, 273, 304, 334, 365>>[m]
        + (IF m > 2 /\ IsLeap(y) THEN 1 ELSE 0)

\* datetime.strptime(s, "%Y-%m-%d") raises ValueError unless the fields
\* name a calendar date of the years 1..9999.
StrptimeOk(s) ==
    /\ s[1] \in 1..9999
    /\ s[2] \in 1..12
    /\ s[3] \in 1..DaysInMonth(s[1], s[2])

\* datetime.strptime(s, "%Y-%m-%d").date(), as an ordinal.
Strptime(s) == DaysBeforeYear(s[1]) + DaysBeforeMonth(s[1], s[2]) + s[3]

\* date.strftime("%Y-%m-%d"): the fields of the date with ordinal o.
Strftime(o) ==
    LET n0   == o - 1
        n400 == n0 \div 146097
        r400 == n0 % 146097
        n100 == r400 \div 36524
        r100 == r400 % 36524
        n4   == r100 \div 1461
        r4   == r100 % 1461
        n1   == r4 \div 365
        n    == r4 % 365
        year == n400 * 400 + 1 + n100 * 100 + n4 * 4 + n1
    IN  IF n1 = 4 \/ n100 = 4 THEN <<year - 1, 12, 31>>
        ELSE LET guess == (n + 50) \div 32
                 month == IF DaysBeforeMonth(year, guess) > n THEN guess - 1 ELSE guess
             IN  <<year, month, n - DaysBeforeMonth(year, month) + 1>>

\* date.weekday(): Monday = 0 ... Sunday = 6.
Weekday(o) == (o + 6) % 7

\* ------------------------------------------------------------ staff model
\* StaffMember.__init__: the unavailable days are parsed to dates.
StaffMember(name, role, target_shifts, unavailable_days) ==
    [name |-> name, role |-> role, target_shifts |-> target_shifts,
     unavailable_days |->
        [i \in 1..Len(unavailable_days) |-> Strptime(unavailable_days[i])]]

\* Mutant of BlockOfDates: the offsets run from 1 to num_days.
BlockOfDates_FromOne(start, num_days) ==
    [i \in 0..(num_days - 1) |-> start + i + 1]

\* self.dates: start_date + timedelta(days=i) for i in range(num_days).
BlockOfDates(start, num_days) == [i \in 0..(num_days - 1) |-> start + i]

\* OnCallScheduler.__init__ raises instead of returning a scheduler:
\* ValueError from strptime, OverflowError from date + timedelta.
SchedulerInitRaises(start_date, num_days) ==
    \/ ~StrptimeOk(start_date)
    \/ Strptime(start_date) + (num_days - 1) > MaxOrdinal

\* OnCallScheduler.__init__: the block's dates, the staff indices of each
\* role, the weekend and the Friday day indices.
OnCallScheduler(staff_members, start_date, num_days) ==
    LET start == Strptime(start_date)
        dates == BlockOfDates(start, num_days)
        staff == DOMAIN staff_members
    IN  [start_date |-> start,
         num_days   |-> num_days,
         end_date   |-> start + (num_days - 1),
         dates      |-> dates,
         junior_indices       |-> {i \in staff : staff_members[i].role = "Junior"},
         intermediate_indices |-> {i \in staff : staff_members[i].role = "Intermediate"},
         senior_indices       |-> {i \in staff : staff_members[i].role = "Senior"},
         weekend_day_indices  |->
            {d \in DOMAIN dates : Weekday(dates[d]) = SATURDAY \/ Weekday(dates[d]) = SUNDAY},
         friday_day_indices   |->
            {d \in DOMAIN dates :
                /\ ~(Weekday(dates[d]) = SATURDAY \/ Weekday(dates[d]) = SUNDAY)
                /\ Weekday(dates[d]) = FRIDAY}]

\* self.date_to_index: `date in self.date_to_index` and the index of a date.
InDateToIndex(sch, date) == \E d \in DOMAIN sch.dates : sch.dates[d] = date
DateToIndex(sch, date) == CHOOSE d \in DOMAIN sch.dates : sch.dates[d] = date

\* ------------------------------------------------ constraint model builder
\* An assignment x is the sequence of the working sets of the days:
\* shifts[(s, d)] = 1 iff s \in x[d + 1].
Shift(x, s, d) == IF s \in x[d + 1] THEN 1 ELSE 0

\* sum(shifts[(s, d)] for d in days): the sum of 0/1 values is the number
\* of ones.
SumOver(x, s, days) == Cardinality({d \in days : Shift(x, s, d) = 1})

\* Mutant of Coverage: only the total is constrained, the indicator
\* constraints on the roles are missing.
Coverage_TotalOnly(sch, W) == Cardinality(W) >= 1 /\ Cardinality(W) <= 2

\* Hard constraint 1 on the working set W of one day: 1 or 2 working, and
\* the indicator is_pair chooses between the two shapes.
Coverage(sch, W) ==
    LET intermediate_working == Cardinality(W \cap sch.intermediate_indices)
        senior_working       == Cardinality(W \cap sch.senior_indices)
        junior_working       == Cardinality(W \cap sch.junior_indices)
        total_working        == Cardinality(W)
    IN  /\ total_working >= 1
        /\ total_working <= 2
        /\ \E is_pair \in BOOLEAN :
              /\ is_pair =>
                    /\ total_working = 2
                    /\ senior_working = 1
                    /\ junior_working = 1
                    /\ intermediate_working = 0
              /\ ~is_pair =>
                    /\ total_working = 1
                    /\ intermediate_working + senior_working = 1
                    /\ junior_working = 0

\* Hard constraint 4 on one day: a working Junior needs a working Senior.
JuniorsNotAlone(sch, W) ==
    \A j_idx \in sch.junior_indices :
        Cardinality(W \cap sch.senior_indices) >= (IF j_idx \in W THEN 1 ELSE 0)

\* Mutant of RespectUnavailable: the lookup of the date never matches, so
\* nothing is posted.
RespectUnavailable_NeverMatches(sm, sch, W, d) == TRUE

\* Mutant of RespectUnavailable: only the first date of each list is posted.
RespectUnavailable_OnlyFirst(sm, sch, W, d) ==
    \A s \in DOMAIN sm :
        \A i \in DOMAIN sm[s].unavailable_days \cap {1} :
            InDateToIndex(sch, sm[s].unavailable_days[i]) =>
                (DateToIndex(sch, sm[s].unavailable_days[i]) = d => s \notin W)

\* Hard constraint 3 on day d: nobody works on a day they are unavailable;
\* unavailable dates outside the block post nothing.
RespectUnavailable(sm, sch, W, d) ==
    \A s \in DOMAIN sm :
        \A i \in DOMAIN sm[s].unavailable_days :
            InDateToIndex(sch, sm[s].unavailable_days[i]) =>
                (DateToIndex(sch, sm[s].unavailable_days[i]) = d => s \notin W)

\* Mutant of NoBackToBack: the loop over the staff stops one short.
NoBackToBack_SkipsLast(sm, V, W) ==
    \A s \in 1..(Len(sm) - 1) :
        (IF s \in V THEN 1 ELSE 0) + (IF s \in W THEN 1 ELSE 0) <= 1

\* Hard constraint 2 on two consecutive days with working sets V then W.
NoBackToBack(sm, V, W) ==
    \A s \in DOMAIN sm :
        (IF s \in V THEN 1 ELSE 0) + (IF s \in W THEN 1 ELSE 0) <= 1

\* The target band: total shifts within target - 1 (not below 0) .. target + 1.
TargetBand(sm, sch, x) ==
    \A s \in DOMAIN sm :
        LET total_shifts == SumOver(x, s, DOMAIN sch.dates)
            min_shifts   == Max(0, sm[s].target_shifts - 1)
            max_shifts   == sm[s].target_shifts + 1
        IN  total_shifts >= min_shifts /\ total_shifts <= max_shifts

\* Mutant of Balanced: min and max are bounded by the counts, their
\* difference is not limited.
Balanced_NoLimit(sm, x, days) ==
    LET counts == [s \in DOMAIN sm |-> SumOver(x, s, days)]
    IN  (Cardinality(days) > 0 /\ Len(sm) > 1) =>
            \E min_c \in 0..Cardinality(days), max_c \in 0..Cardinality(days) :
                \A s \in DOMAIN sm : min_c <= counts[s] /\ max_c >= counts[s]

\* Balance of the per-staff counts over the day indices `days` (the weekend
\* days, the Fridays): posted only with such a day and more than one staff.
Balanced(sm, x, days) ==
    LET counts == [s \in DOMAIN sm |-> SumOver(x, s, days)]
    IN  (Cardinality(days) > 0 /\ Len(sm) > 1) =>
            \E min_c \in 0..Cardinality(days), max_c \in 0..Cardinality(days) :
                /\ \A s \in DOMAIN sm : min_c <= counts[s] /\ max_c >= counts[s]
                /\ max_c - min_c <= 1

WeekendBalance(sm, sch, x) == Balanced(sm, x, sch.weekend_day_indices)
FridayBalance(sm, sch, x) == Balanced(sm, x, sch.friday_day_indices)

\* The working sets day d may take under the per-day constraints.
DayChoices(sm, sch, d) ==
    {W \in SUBSET (DOMAIN sm) :
        /\ Coverage(sch, W)
        /\ JuniorsNotAlone(sch, W)
        /\ RespectUnavailable(sm, sch, W, d)}

RECURSIVE Prefixes(_, _, _)
\* The assignments of days 0..k-1 that satisfy the per-day constraints and
\* the no-back-to-back constraint.
Prefixes(sm, sch, k) ==
    IF k = 0 THEN {<< >>}
    ELSE LET choices == DayChoices(sm, sch, k - 1)
         IN  UNION {
                {Append(p, W) :
                    W \in {V \in choices : k = 1 \/ NoBackToBack(sm, p[k - 1], V)}}
                : p \in Prefixes(sm, sch, k - 1)}

\* Every assignment that satisfies the model generate_schedule builds.
Solutions(sm, sch) ==
    {x \in Prefixes(sm, sch, sch.num_days) :
        /\ TargetBand(sm, sch, x)
        /\ WeekendBalance(sm, sch, x)
        /\ FridayBalance(sm, sch, x)}

\* --------------------------------------------------------- solver driver
\* What solver.Solve can answer: a satisfying assignment (OPTIMAL; no
\* objective is posted), INFEASIBLE when there is none, or UNKNOWN when the
\* 30 s time limit ends the search first.
SolverOutcomes(sm, sch) ==
    LET sols == Solutions(sm, sch)
    IN  {[status |-> "OPTIMAL", x |-> x] : x \in sols}
        \cup (IF sols = {} THEN {[status |-> "INFEASIBLE", x |-> << >>]} ELSE {})
        \cup {[status |-> "UNKNOWN", x |-> << >>]}

\* ------------------------------------------------------- solution decoder
\* A text built from pieces is the sequence of its pieces.
RECURSIVE Join(_, _)
\* sep.join(names)
Join(sep, names) ==
    IF Len(names) = 0 THEN << >>
    ELSE IF Len(names) = 1 THEN <<names[1]>>
    ELSE <<names[1], sep>> \o Join(sep, Tail(names))

\* range(n) as a list
Range0(n) == [i \in 1..n |-> i - 1]

\* working_staff of day d: the staff with value 1, in staff order.
WorkingStaff(sm, x, d) ==
    LET Works(s) == Shift(x, s, d) = 1
    IN  SelectSeq([i \in 1..Len(sm) |-> i], Works)

\* Mutant of ScheduleEntry: two working staff that are no Senior with a
\* Junior are reported like a day with nobody.
ScheduleEntry_NoJoin(sm, x, d) ==
    LET working_staff == WorkingStaff(sm, x, d)
        names   == [i \in 1..Len(working_staff) |-> sm[working_staff[i]].name]
        seniors == {i \in 1..Len(working_staff) : sm[working_staff[i]].role = "Senior"}
        juniors == {i \in 1..Len(working_staff) : sm[working_staff[i]].role = "Junior"}
    IN  IF Len(working_staff) = 1
        THEN [kind |-> "str", text |-> <<names[1]>>]
        ELSE IF Len(working_staff) = 2 /\ seniors # {} /\ juniors # {}
        THEN LET senior == names[MinOf(seniors)]
                 junior == names[MinOf(juniors)]
             IN  [kind |-> "dict", senior |-> senior, junior |-> junior,
                  display |-> <<senior, " (Sr) + ", junior, " (Jr)">>]
        ELSE [kind |-> "str", text |-> <<"Unassigned">>]

\* schedule[date_str] for day d.
ScheduleEntry(sm, x, d) ==
    LET working_staff == WorkingStaff(sm, x, d)
        names   == [i \in 1..Len(working_staff) |-> sm[working_staff[i]].name]
        seniors == {i \in 1..Len(working_staff) : sm[working_staff[i]].role = "Senior"}
        juniors == {i \in 1..Len(working_staff) : sm[working_staff[i]].role = "Junior"}
    IN  IF Len(working_staff) = 1
        THEN [kind |-> "str", text |-> <<names[1]>>]
        ELSE IF Len(working_staff) = 2
        THEN IF seniors # {} /\ juniors # {}
             THEN LET senior == names[MinOf(seniors)]
                      junior == names[MinOf(juniors)]
                  IN  [kind |-> "dict", senior |-> senior, junior |-> junior,
                       display |-> <<senior, " (Sr) + ", junior, " (Jr)">>]
             ELSE [kind |-> "str", text |-> Join(" + ", names)]
        ELSE [kind |-> "str", text |-> <<"Unassigned">>]

\* The schedule dict after the loop over the days: a later day with the
\* same key overwrites an earlier one.
BuildSchedule(sm, sch, x) ==
    LET days == DOMAIN sch.dates
        date_str == [d \in days |-> Strftime(sch.dates[d])]
    IN  [k \in {date_str[d] : d \in days} |->
            ScheduleEntry(sm, x, MaxOf({d \in days : date_str[d] = k}))]

\* staff_assignments[staff.name] of staff s.
StaffAssignment(sm, sch, x, s) ==
    LET Works(d) == Shift(x, s, d) = 1
        worked == SelectSeq(Range0(sch.num_days), Works)
    IN  [role   |-> sm[s].role,
         target |-> sm[s].target_shifts,
         actual |-> SumOver(x, s, DOMAIN sch.dates),
         weekend_shifts |-> SumOver(x, s, sch.weekend_day_indices),
         friday_shifts  |-> SumOver(x, s, sch.friday_day_indices),
         days   |-> [i \in 1..Len(worked) |-> Strftime(sch.dates[worked[i]])]]

\* The staff_assignments dict: a later staff of the same name overwrites.
BuildStaffAssignments(sm, sch, x) ==
    [n \in {sm[s].name : s \in DOMAIN sm} |->
        StaffAssignment(sm, sch, x, MaxOf({s \in DOMAIN sm : sm[s].name = n}))]

NoSolutionMessage == "Could not find a valid schedule that satisfies all constraints"

\* OnCallScheduler.generate_schedule from the solver's answer on.
GenerateSchedule(sm, sch, outcome) ==
    IF outcome.status = "OPTIMAL" \/ outcome.status = "FEASIBLE"
    THEN LET schedule == BuildSchedule(sm, sch, outcome.x)
         IN  IF Cardinality(DOMAIN schedule) # sch.num_days
             THEN [status |-> "no_solution",
                   message |-> "Schedule generation error: Expected N days, got M"]
             ELSE [status |-> "success",
                   start_date |-> Strftime(sch.start_date),
                   end_date   |-> Strftime(sch.end_date),
                   schedule   |-> schedule,
                   staff_assignments |-> BuildStaffAssignments(sm, sch, outcome.x)]
    ELSE [status |-> "no_solution", message |-> NoSolutionMessage]

\* `result and result.get("status") == "success"`
IsSuccess(r) == r.status = "success"

\* The relaxation of generate_schedule_with_relaxation: each target becomes
\* max(1, target).
RelaxedStaff(sm) ==
    [s \in DOMAIN sm |-> [sm[s] EXCEPT !.target_shifts = Max(1, sm[s].target_shifts)]]

\* The targets put back after the second solve.
RestoredStaff(sm, targets) ==
    [s \in DOMAIN sm |-> [sm[s] EXCEPT !.target_shifts = targets[s]]]

\* ----------------------------------------------------- request entry point
\* An optional field is the empty set (None) or a singleton.
None == {}
Some(v) == {v}

\* The request model rejects the body before the handler runs (422):
\* num_days has ge=7, le=90 and target_shifts has ge=1.
SchemaRejects(req) ==
    \/ req.num_days < MinNumDays
    \/ req.num_days > MaxNumDays
    \/ \E i \in DOMAIN req.staff : req.staff[i].target_shifts < MinTargetShifts

\* The first check of one staff entry that fails, in the handler's order.
StaffInputError(staff_input) ==
    IF staff_input.role \notin valid_roles THEN "Invalid role"
    ELSE IF \E i \in DOMAIN staff_input.unavailable_days :
                ~StrptimeOk(staff_input.unavailable_days[i])
         THEN "Invalid date format in unavailable_days"
         ELSE "ok"

\* The detail of the HTTP 400 the handler raises, or "ok".
SemanticError(req) ==
    LET bad == {i \in DOMAIN req.staff : StaffInputError(req.staff[i]) # "ok"}
        has_senior == \E i \in DOMAIN req.staff : req.staff[i].role = "Senior"
        has_junior == \E i \in DOMAIN req.staff : req.staff[i].role = "Junior"
    IN  IF ~StrptimeOk(req.start_date) THEN "Invalid start_date format"
        ELSE IF bad # {} THEN StaffInputError(req.staff[MinOf(bad)])
        ELSE IF has_junior /\ ~has_senior THEN "At least one Senior required"
        ELSE IF Len(req.staff) < 2 THEN "At least 2 staff members are required"
        ELSE "ok"

\* staff_members = [StaffMember(...) for staff in request.staff]
StaffMembers(req) ==
    [i \in DOMAIN req.staff |->
        StaffMember(req.staff[i].name, req.staff[i].role,
                    req.staff[i].target_shifts, req.staff[i].unavailable_days)]

\* An error answer: the HTTP status and its detail, no response body fields.
ErrorResponse(code, detail) ==
    [http |-> code, detail |-> Some(detail), status |-> None, message |-> None,
     start_date |-> None, end_date |-> None,
     schedule |-> None, staff_assignments |-> None]

\* Mutant of BuildResponse: a failure keeps the scheduler's status.
BuildResponse_KeepsStatus(r) ==
    IF ~IsSuccess(r)
    THEN [http |-> 200, detail |-> None, status |-> Some(r.status),
          message |-> Some(r.message),
          start_date |-> None, end_date |-> None,
          schedule |-> None, staff_assignments |-> None]
    ELSE [http |-> 200, detail |-> None, status |-> Some(r.status),
          message |-> None,
          start_date |-> Some(r.start_date), end_date |-> Some(r.end_date),
          schedule |-> Some(r.schedule),
          staff_assignments |-> Some(r.staff_assignments)]

\* The ScheduleResponse the handler returns for the scheduler's result.
BuildResponse(r) ==
    IF ~IsSuccess(r)
    THEN [http |-> 200, detail |-> None, status |-> Some("error"),
          message |-> Some(r.message),
          start_date |-> None, end_date |-> None,
          schedule |-> None, staff_assignments |-> None]
    ELSE [http |-> 200, detail |-> None, status |-> Some(r.status),
          message |-> None,
          start_date |-> Some(r.start_date), end_date |-> Some(r.end_date),
          schedule |-> Some(r.schedule),
          staff_assignments |-> Some(r.staff_assignments)]

\* name.strip() of the names of the model: a name of white space only
\* strips to the empty text, the others have no white space around them.
Strip(name) == IF name \in {"", " "} THEN "" ELSE name

\* The first check of validate_schedule_request that one staff entry fails,
\* in the order of its loop body.
StaffInputInvalid(staff_input) ==
    IF Strip(staff_input.name) = "" THEN "Staff name cannot be empty"
    ELSE IF staff_input.role \notin valid_roles THEN "Invalid role"
    ELSE IF staff_input.target_shifts < 1 THEN "Target shifts must be at least 1"
    ELSE IF \E i \in DOMAIN staff_input.unavailable_days :
                ~StrptimeOk(staff_input.unavailable_days[i])
         THEN "Invalid date format"
         ELSE "ok"

\* validate_schedule_request: the body of its answer.
ValidateScheduleRequest(req) ==
    LET bad == {i \in DOMAIN req.staff : StaffInputInvalid(req.staff[i]) # "ok"}
        has_senior == \E i \in DOMAIN req.staff : req.staff[i].role = "Senior"
        has_junior == \E i \in DOMAIN req.staff : req.staff[i].role = "Junior"
        No(message) == [http |-> 200, valid |-> FALSE, message |-> message]
    IN  IF ~StrptimeOk(req.start_date) THEN No("Invalid start_date format")
        ELSE IF Len(req.staff) < 2 THEN No("At least 2 staff members are required")
        ELSE IF bad # {} THEN No(StaffInputInvalid(req.staff[MinOf(bad)]))
        ELSE IF has_junior /\ ~has_senior THEN No("At least one Senior required")
        ELSE [http |-> 200, valid |-> TRUE, message |-> "Request is valid"]

\* ------------------------------------------------------------- the inputs
Names == <<"Ann", "Bob", "Cy", "Dee">>
\* A week from a Sunday (its two weekend days are not adjacent) and eight
\* days from a Friday (two Fridays); 2024-12-04 lies in both.
Blocks == {[start_date |-> <<2024, 12, 1>>, num_days |-> MinNumDays],
           [start_date |-> <<2024, 11, 29>>, num_days |-> MinNumDays + 1]}
InBlockDate == <<2024, 12, 4>>
OutOfBlockDate == <<2024, 12, 20>>
MalformedDate == <<2024, 2, 30>>
LastWeekDate == <<9999, 12, 28>>

\* The kinds of staff entry: a role, a target (the least the schema admits,
\* or MaxTarget) and a list of unavailable days.
RoleList == <<"Senior", "Intermediate", "Junior">>
Targets == {MinTargetShifts, MaxTarget}
UnavailableLists == << << >>, <<OutOfBlockDate, InBlockDate>> >>
Kinds == (1..Len(RoleList)) \X Targets \X (1..Len(UnavailableLists))

\* A request carries one to three staff; three is the fewest with which a
\* pair day can occur.
StaffCounts == {1, 2, 3}

StaffInput(i, kind) ==
    [name |-> Names[i], role |-> RoleList[kind[1]],
     target_shifts |-> kind[2],
     unavailable_days |-> UnavailableLists[kind[3]]]

\* kind j is listed no later than kind k
KindLeq(j, k) ==
    \/ j[1] < k[1]
    \/ j[1] = k[1] /\ j[2] < k[2]
    \/ j[1] = k[1] /\ j[2] = k[2] /\ j[3] <= k[3]

\* The staff lists of length n, one for each multiset of kinds: the model
\* the scheduler builds does not depend on the order of the staff.
StaffLists(n) ==
    {[i \in 1..n |-> StaffInput(i, kinds[i])] :
        kinds \in {ks \in [1..n -> Kinds] :
                      \A i \in 1..(n - 1) : KindLeq(ks[i], ks[i + 1])}}

\* Requests that pass the schema and carry well-formed values.
RequestsOf(counts) ==
    {[staff |-> l, start_date |-> b.start_date, num_days |-> b.num_days] :
        l \in UNION {StaffLists(n) : n \in counts}, b \in Blocks}

WellFormedRequests == RequestsOf(StaffCounts)

\* One field of a request replaced by a value the entry point must refuse,
\* or by a start date in the last week of the year 9999.
Damaged(req) ==
    {[req EXCEPT !.num_days = k] : k \in {MinNumDays - 1, MaxNumDays + 1}}
    \cup {[req EXCEPT !.start_date = d] : d \in {MalformedDate, LastWeekDate}}
    \cup UNION {
            {[req EXCEPT !.staff[i].role = "Doctor"],
             [req EXCEPT !.staff[i].target_shifts = MinTargetShifts - 1],
             [req EXCEPT !.staff[i].unavailable_days = <<InBlockDate, MalformedDate>>]}
            : i \in DOMAIN req.staff}

\* A name of white space only.
BlankName == " "

\* Names the entry point does not refuse: the first two staff of one name,
\* or the first staff with a blank name.
SameName(req) == [req EXCEPT !.staff[2].name = req.staff[1].name]
Blank(req) == [req EXCEPT !.staff[1].name = BlankName]

Requests ==
    WellFormedRequests
    \cup UNION {Damaged(req) : req \in RequestsOf({1, 2})}
    \cup {SameName(req) : req \in RequestsOf({2, 3})}
    \cup {Blank(req) : req \in RequestsOf({2})}

\* ------------------------------------------------------ the state machine
VARIABLES
    request,          \* the ScheduleRequest being handled
    pc,               \* where the handler is
    staff_members,    \* scheduler.staff_members
    scheduler,        \* the OnCallScheduler's other fields
    original_targets, \* the targets saved before the relaxation
    result,           \* what generate_schedule returned last
    values,           \* the solver's values behind `result`
    log,              \* the solves done so far: phase, solver status, result status
    response,         \* what the handler answers
    validation,       \* what validate_schedule_request answers
    store,            \* the rows of the staff table
    inflight,         \* the roster requests received and not yet handled
    handled           \* the roster request handled last and its answer

\* The state of the endpoints other than /api/schedule/generate.
other_endpoints == <<validation, store, inflight, handled>>

vars == <<request, pc, staff_members, scheduler, original_targets, result,
          values, log, response, validation, store, inflight, handled>>

NoScheduler == OnCallScheduler(<< >>, <<1, 1, 1>>, 0)
NoResult == [status |-> "none"]
NoResponse == [http |-> 0]
NoValidation == [http |-> 0]
NothingHandled == [http |-> 0]

\* Nothing has been asked of the other endpoints.
OthersIdle ==
    /\ validation = NoValidation
    /\ store = {}
    /\ inflight = {}
    /\ handled = NothingHandled

Init ==
    /\ request \in Requests
    /\ pc = "received"
    /\ staff_members = << >>
    /\ scheduler = NoScheduler
    /\ original_targets = << >>
    /\ result = NoResult
    /\ values = << >>
    /\ log = << >>
    /\ response = NoResponse
    /\ OthersIdle

\* The request model refuses the body: HTTP 422, the handler never runs.
RejectSchema ==
    /\ pc = "received"
    /\ SchemaRejects(request)
    /\ response' = ErrorResponse(422, "validation error")
    /\ pc' = "done"
    /\ UNCHANGED <<request, staff_members, scheduler, original_targets, result,
                   values, log>>
    /\ UNCHANGED other_endpoints

\* The handler's own checks refuse the request: HTTP 400.
RejectSemantic ==
    /\ pc = "received"
    /\ ~SchemaRejects(request)
    /\ SemanticError(request) # "ok"
    /\ response' = ErrorResponse(400, SemanticError(request))
    /\ pc' = "done"
    /\ UNCHANGED <<request, staff_members, scheduler, original_targets, result,
                   values, log>>
    /\ UNCHANGED other_endpoints

\* The scheduler's constructor raises; `except Exception` answers HTTP 500.
FailConstruction ==
    /\ pc = "received"
    /\ ~SchemaRejects(request)
    /\ SemanticError(request) = "ok"
    /\ SchedulerInitRaises(request.start_date, request.num_days)
    /\ response' = ErrorResponse(500, "Internal server error")
    /\ pc' = "done"
    /\ UNCHANGED <<request, staff_members, scheduler, original_targets, result,
                   values, log>>
    /\ UNCHANGED other_endpoints

\* The staff members and the scheduler are built.
Construct ==
    /\ pc = "received"
    /\ ~SchemaRejects(request)
    /\ SemanticError(request) = "ok"
    /\ ~SchedulerInitRaises(request.start_date, request.num_days)
    /\ staff_members' = StaffMembers(request)
    /\ scheduler' = OnCallScheduler(StaffMembers(request), request.start_date,
                                    request.num_days)
    /\ pc' = "strict"
    /\ UNCHANGED <<request, original_targets, result, values, log, response>>
    /\ UNCHANGED other_endpoints

\* One call of generate_schedule in the given phase.
Solve(phase) ==
    \E outcome \in SolverOutcomes(staff_members, scheduler) :
        /\ result' = GenerateSchedule(staff_members, scheduler, outcome)
        /\ values' = outcome.x
        /\ log' = Append(log, [phase |-> phase, solver |-> outcome.status,
                               status |-> result'.status])

\* generate_schedule_with_relaxation: the first call of generate_schedule.
StrictSolve ==
    /\ pc = "strict"
    /\ Solve("strict")
    /\ pc' = "strict_done"
    /\ UNCHANGED <<request, staff_members, scheduler, original_targets, response>>
    /\ UNCHANGED other_endpoints

\* Mutant of ReturnStrict: the first result is returned whatever its status.
ReturnStrict_Unchecked ==
    /\ pc = "strict_done"
    /\ response' = BuildResponse(result)
    /\ pc' = "done"
    /\ UNCHANGED <<request, staff_members, scheduler, original_targets, result,
                   values, log>>
    /\ UNCHANGED other_endpoints

\* The first result is a success: it is returned, and the handler answers
\* with it.
ReturnStrict ==
    /\ pc = "strict_done"
    /\ IsSuccess(result)
    /\ response' = BuildResponse(result)
    /\ pc' = "done"
    /\ UNCHANGED <<request, staff_members, scheduler, original_targets, result,
                   values, log>>
    /\ UNCHANGED other_endpoints

\* The first result is no success: the targets are saved and relaxed.
RelaxTargets ==
    /\ pc = "strict_done"
    /\ ~IsSuccess(result)
    /\ original_targets' = [s \in DOMAIN staff_members |-> staff_members[s].target_shifts]
    /\ staff_members' = RelaxedStaff(staff_members)
    /\ pc' = "relaxed"
    /\ UNCHANGED <<request, scheduler, result, values, log, response>>
    /\ UNCHANGED other_endpoints

\* The second call of generate_schedule.
RelaxedSolve ==
    /\ pc = "relaxed"
    /\ Solve("relaxed")
    /\ pc' = "restore"
    /\ UNCHANGED <<request, staff_members, scheduler, original_targets, response>>
    /\ UNCHANGED other_endpoints

\* The saved targets are put back, the second result is returned, and the
\* handler answers with it.
RestoreTargets ==
    /\ pc = "restore"
    /\ staff_members' = RestoredStaff(staff_members, original_targets)
    /\ response' = BuildResponse(result)
    /\ pc' = "done"
    /\ UNCHANGED <<request, scheduler, original_targets, result, values, log>>
    /\ UNCHANGED other_endpoints

Next ==
    \/ RejectSchema
    \/ RejectSemantic
    \/ FailConstruction
    \/ Construct
    \/ StrictSolve
    \/ ReturnStrict
    \/ RelaxTargets
    \/ RelaxedSolve
    \/ RestoreTargets

Spec == Init /\ [][Next]_vars

\* --------------------------------------- the two endpoints of a request
\* POST /api/schedule/validate with the request: the request model refuses
\* the body (422) or the handler answers.
ValidateRequest ==
    /\ validation = NoValidation
    /\ validation' = IF SchemaRejects(request) THEN [http |-> 422]
                     ELSE ValidateScheduleRequest(request)
    /\ UNCHANGED <<request, pc, staff_members, scheduler, original_targets,
                   result, values, log, response, store, inflight, handled>>

\* One request sent to the validate endpoint and to the generate endpoint,
\* the latter followed up to the call of generate_schedule_with_relaxation.
EndpointsNext ==
    \/ ValidateRequest
    \/ RejectSchema
    \/ RejectSemantic
    \/ FailConstruction
    \/ Construct

EndpointsSpec == Init /\ [][EndpointsNext]_vars

\* ------------------------------------------- the decoder on its own
\* The staff lists the decoder is applied to: every list of roles.
DecoderStaffLists ==
    UNION {{[i \in 1..n |-> StaffInput(i, <<roles[i], MinTargetShifts, 1>>)] :
                roles \in [1..n -> 1..Len(RoleList)]} : n \in StaffCounts}

\* The solver has answered with values for the shifts; any 0/1 values.
DecoderInit ==
    /\ request \in {[staff |-> l, start_date |-> <<2024, 12, 1>>, num_days |-> DecodeDays] :
                       l \in DecoderStaffLists}
    /\ pc = "solved"
    /\ staff_members = StaffMembers(request)
    /\ scheduler = OnCallScheduler(staff_members, request.start_date, request.num_days)
    /\ values \in [1..request.num_days -> SUBSET (DOMAIN request.staff)]
    /\ original_targets = << >>
    /\ result = NoResult
    /\ log = << >>
    /\ response = NoResponse
    /\ OthersIdle

\* generate_schedule from `if status == OPTIMAL or status == FEASIBLE` on.
Decode ==
    /\ pc = "solved"
    /\ result' = GenerateSchedule(staff_members, scheduler,
                                  [status |-> "OPTIMAL", x |-> values])
    /\ pc' = "decoded"
    /\ UNCHANGED <<request, staff_members, scheduler, original_targets, values,
                   log, response>>
    /\ UNCHANGED other_endpoints

DecoderNext == Decode

DecoderSpec == DecoderInit /\ [][DecoderNext]_vars

\* ------------------------------------------------------- the staff roster
\* The value of an optional field that is given.
The(field) == CHOOSE v \in field : TRUE

\* StaffRole[role.upper()]: the member of the enumeration, by its name.
StaffRole(role) ==
    [Junior |-> "JUNIOR", Intermediate |-> "INTERMEDIATE", Senior |-> "SENIOR"][role]

\* db.query(Staff).filter(Staff.id == staff_id)
WithId(db, staff_id) == {row \in db : row.id = staff_id}

\* db.query(Staff).filter(Staff.name == name)
WithName(db, name) == {row \in db : row.name = name}

\* The id the table gives a new row: one more than the largest id in it.
NewId(db) == IF db = {} THEN 1 ELSE MaxOf({row.id : row \in db}) + 1

\* The answer of a roster handler and the table it leaves; `dirty` tells
\* that the session held an unwritten change when it was closed.
Answer(http, detail, dirty, db) ==
    [http |-> http, detail |-> detail, dirty |-> dirty, db |-> db]

\* Mutant of CreateStaff: the name is not looked up.
CreateStaff_NoLookup(db, staff_data) ==
    IF The(staff_data.role) \notin valid_roles
    THEN Answer(400, "Invalid role", FALSE, db)
    ELSE Answer(200, "", FALSE,
                db \cup {[id |-> NewId(db), name |-> The(staff_data.name),
                          role |-> StaffRole(The(staff_data.role)),
                          default_target_shifts |-> The(staff_data.default_target_shifts)]})

\* create_staff
CreateStaff(db, staff_data) ==
    IF The(staff_data.role) \notin valid_roles
    THEN Answer(400, "Invalid role", FALSE, db)
    ELSE IF WithName(db, The(staff_data.name)) # {}
    THEN Answer(400, "Name already exists", FALSE, db)
    ELSE Answer(200, "", FALSE,
                db \cup {[id |-> NewId(db), name |-> The(staff_data.name),
                          role |-> StaffRole(The(staff_data.role)),
                          default_target_shifts |-> The(staff_data.default_target_shifts)]})

\* Mutant of UpdateStaff: the session writes the new name when the role is
\* refused.
UpdateStaff_WritesName(db, staff_id, staff_data) ==
    IF WithId(db, staff_id) = {}
    THEN Answer(404, "Staff member not found", FALSE, db)
    ELSE LET staff == CHOOSE row \in WithId(db, staff_id) : TRUE
             renamed == IF staff_data.name # None
                        THEN [staff EXCEPT !.name = The(staff_data.name)]
                        ELSE staff
             with_role == IF staff_data.role # None
                          THEN [renamed EXCEPT !.role = StaffRole(The(staff_data.role))]
                          ELSE renamed
             updated == IF staff_data.default_target_shifts # None
                        THEN [with_role EXCEPT !.default_target_shifts =
                                                  The(staff_data.default_target_shifts)]
                        ELSE with_role
         IN  IF /\ staff_data.name # None
                /\ WithName(db, The(staff_data.name)) \ WithId(db, staff_id) # {}
             THEN Answer(400, "Name already exists", FALSE, db)
             ELSE IF staff_data.role # None /\ The(staff_data.role) \notin valid_roles
             THEN Answer(400, "Invalid role", renamed # staff, (db \ {staff}) \cup {renamed})
             ELSE Answer(200, "", FALSE, (db \ {staff}) \cup {updated})

\* update_staff: the row is changed in the session field by field and
\* written by the commit; a refusal closes the session without a commit.
UpdateStaff(db, staff_id, staff_data) ==
    IF WithId(db, staff_id) = {}
    THEN Answer(404, "Staff member not found", FALSE, db)
    ELSE LET staff == CHOOSE row \in WithId(db, staff_id) : TRUE
             renamed == IF staff_data.name # None
                        THEN [staff EXCEPT !.name = The(staff_data.name)]
                        ELSE staff
             with_role == IF staff_data.role # None
                          THEN [renamed EXCEPT !.role = StaffRole(The(staff_data.role))]
                          ELSE renamed
             updated == IF staff_data.default_target_shifts # None
                        THEN [with_role EXCEPT !.default_target_shifts =
                                                  The(staff_data.default_target_shifts)]
                        ELSE with_role
         IN  IF /\ staff_data.name # None
                /\ WithName(db, The(staff_data.name)) \ WithId(db, staff_id) # {}
             THEN Answer(400, "Name already exists", FALSE, db)
             ELSE IF staff_data.role # None /\ The(staff_data.role) \notin valid_roles
             THEN Answer(400, "Invalid role", renamed # staff, db)
             ELSE Answer(200, "", FALSE, (db \ {staff}) \cup {updated})

\* delete_staff
DeleteStaff(db, staff_id) ==
    IF WithId(db, staff_id) = {}
    THEN Answer(404, "Staff member not found", FALSE, db)
    ELSE Answer(200, "", FALSE, db \ WithId(db, staff_id))

\* The roster requests: a create carries all three fields, an update any of
\* them, a delete none; the targets pass the request models (ge=1).
RosterNames == {"Ann", "Bob"}
Clients == {"c1", "c2"}
NoRequest == [kind |-> "none", staff_id |-> 0,
              data |-> [name |-> None, role |-> None, default_target_shifts |-> None]]
CreateRequests ==
    {[kind |-> "create", staff_id |-> 0,
      data |-> [name |-> Some(n), role |-> Some(r),
                default_target_shifts |-> Some(MinTargetShifts)]] :
        n \in RosterNames, r \in {"Senior", "Doctor"}}
UpdateRequests ==
    {[kind |-> "update", staff_id |-> i, data |-> d] :
        i \in 1..MaxId,
        d \in {[name |-> n, role |-> r, default_target_shifts |-> None] :
                  n \in {None} \cup {Some(m) : m \in RosterNames},
                  r \in {None, Some("Junior"), Some("Doctor")}}
              \cup {[name |-> None, role |-> None,
                     default_target_shifts |-> Some(MinTargetShifts + 1)]}}
DeleteRequests ==
    {[kind |-> "delete", staff_id |-> i, data |-> NoRequest.data] : i \in 1..MaxId}

\* The handlers are coroutines without an await: the event loop runs each
\* from its first query to its commit before it starts another, so requests
\* that are in flight together are handled one after the other, in any order.
RosterInit ==
    /\ request = [staff |-> << >>, start_date |-> <<2024, 12, 1>>, num_days |-> MinNumDays]
    /\ pc = "roster"
    /\ staff_members = << >>
    /\ scheduler = NoScheduler
    /\ original_targets = << >>
    /\ result = NoResult
    /\ values = << >>
    /\ log = << >>
    /\ response = NoResponse
    /\ validation = NoValidation
    /\ store = {}
    /\ inflight = [c \in Clients |-> NoRequest]
    /\ handled = NothingHandled

\* The handler has answered client c with `a`.
Answered(c, a) ==
    /\ \A row \in a.db : row.id <= MaxId
    /\ store' = a.db
    /\ handled' = [kind |-> inflight[c].kind, http |-> a.http,
                   detail |-> a.detail, dirty |-> a.dirty]
    /\ inflight' = [inflight EXCEPT ![c] = NoRequest]
    /\ UNCHANGED <<request, pc, staff_members, scheduler, original_targets,
                   result, values, log, response, validation>>

\* A client with no request in flight sends one.
Receive ==
    \E c \in Clients :
        /\ inflight[c] = NoRequest
        /\ \E r \in CreateRequests \cup UpdateRequests \cup DeleteRequests :
              inflight' = [inflight EXCEPT ![c] = r]
        /\ UNCHANGED <<request, pc, staff_members, scheduler, original_targets,
                       result, values, log, response, validation, store, handled>>

create_staff ==
    \E c \in Clients :
        /\ inflight[c].kind = "create"
        /\ Answered(c, CreateStaff(store, inflight[c].data))

update_staff ==
    \E c \in Clients :
        /\ inflight[c].kind = "update"
        /\ Answered(c, UpdateStaff(store, inflight[c].staff_id, inflight[c].data))

delete_staff ==
    \E c \in Clients :
        /\ inflight[c].kind = "delete"
        /\ Answered(c, DeleteStaff(store, inflight[c].staff_id))

RosterNext ==
    \/ Receive
    \/ create_staff
    \/ update_staff
    \/ delete_staff

RosterSpec == RosterInit /\ [][RosterNext]_vars

\* ================================================================ claims
\* The calendar day after the date string t, and the date string i days
\* after t, by counting days (no ordinals).
NextDay(t) ==
    IF t[3] < DaysInMonth(t[1], t[2]) THEN <<t[1], t[2], t[3] + 1>>
    ELSE IF t[2] < 12 THEN <<t[1], t[2] + 1, 1>>
    ELSE <<t[1] + 1, 1, 1>>

RECURSIVE DatesFrom(_, _)
\* The date strings of the n days from t on.
DatesFrom(t, n) == IF n = 0 THEN << >> ELSE <<t>> \o DatesFrom(NextDay(t), n - 1)

\* The days of the request's block with their date strings, its staff, and
\* who the solver put on day d.
BlockDays == 0..(request.num_days - 1)
BlockDates ==
    LET dates == DatesFrom(request.start_date, request.num_days)
    IN  [d \in BlockDays |-> dates[d + 1]]
Staff == DOMAIN request.staff
OnCall(d) == values[d + 1]
WithRole(W, role) == {s \in W : request.staff[s].role = role}
ShiftsOf(s, days) == Cardinality({d \in days : s \in OnCall(d)})
WeekendDays ==
    LET dates == BlockDates
    IN  {d \in BlockDays : Weekday(Strptime(dates[d])) \in {SATURDAY, SUNDAY}}
Fridays ==
    LET dates == BlockDates
    IN  {d \in BlockDays : Weekday(Strptime(dates[d])) = FRIDAY}
LastPhase == log[Len(log)].phase

\* C1: in every successful result each day is covered by exactly one
\* Intermediate, or exactly one Senior, or exactly one Senior with exactly one
\* Junior, and the schedule entry of the day names exactly those staff.
C1_Coverage ==
    IsSuccess(result) =>
        LET dates == BlockDates
        IN  \A d \in BlockDays :
            LET W == OnCall(d)
                entry == result.schedule[dates[d]]
                I == WithRole(W, "Intermediate")
                S == WithRole(W, "Senior")
                J == WithRole(W, "Junior")
            IN  \/ /\ Cardinality(W) = 1
                   /\ Cardinality(I) = 1 \/ Cardinality(S) = 1
                   /\ entry.kind = "str"
                   /\ \E s \in W : entry.text = <<request.staff[s].name>>
                \/ /\ Cardinality(W) = 2
                   /\ Cardinality(S) = 1
                   /\ Cardinality(J) = 1
                   /\ entry.kind = "dict"
                   /\ \E s \in S : entry.senior = request.staff[s].name
                   /\ \E j \in J : entry.junior = request.staff[j].name

\* A successful result with a pair day, a solo Senior day and a solo
\* Intermediate day.
C1_Witness ==
    /\ IsSuccess(result)
    /\ \E d \in BlockDays : Cardinality(OnCall(d)) = 2
    /\ \E d \in BlockDays :
          Cardinality(OnCall(d)) = 1 /\ WithRole(OnCall(d), "Senior") # {}
    /\ \E d \in BlockDays :
          Cardinality(OnCall(d)) = 1 /\ WithRole(OnCall(d), "Intermediate") # {}

\* C2: the keys of a successful result's schedule map are exactly the
\* num_days dates from start_date on, so the map has num_days entries.
C2_ScheduleKeys ==
    IsSuccess(result) =>
        /\ DOMAIN result.schedule = {BlockDates[d] : d \in BlockDays}
        /\ Cardinality(DOMAIN result.schedule) = request.num_days

\* A successful response for a block that runs from November into December.
C2_Witness ==
    /\ pc = "done"
    /\ response.status = Some("success")
    /\ request.num_days = MinNumDays + 1
    /\ \E k \in DOMAIN result.schedule : k[2] = 11
    /\ \E k \in DOMAIN result.schedule : k[2] = 12

\* C3: in every successful result nobody is assigned on two consecutive
\* days, and no days[] list holds two consecutive dates.
C3_NoBackToBack ==
    IsSuccess(result) =>
        /\ \A s \in Staff : \A d \in BlockDays \ {request.num_days - 1} :
              ~(s \in OnCall(d) /\ s \in OnCall(d + 1))
        /\ \A n \in DOMAIN result.staff_assignments :
              LET days == result.staff_assignments[n].days
              IN  \A i \in 1..(Len(days) - 1) : days[i + 1] # NextDay(days[i])

\* A successful result in which somebody works every other day.
C3_Witness ==
    /\ IsSuccess(result)
    /\ \E s \in Staff : \E d \in 0..(request.num_days - 3) :
          s \in OnCall(d) /\ s \in OnCall(d + 2)

\* The staff members without their unavailable dates outside the block.
InBlockOnly(sm, sch) ==
    [s \in DOMAIN sm |->
        [sm[s] EXCEPT !.unavailable_days =
            LET InBlock(date) == sch.dates[0] <= date /\ date <= sch.dates[sch.num_days - 1]
            IN  SelectSeq(sm[s].unavailable_days, InBlock)]]

\* C4: in every successful result nobody is assigned on one of their own
\* unavailable dates inside the block, and the unavailable dates outside the
\* block change nothing of what the solver may answer.
C4_Unavailable ==
    /\ IsSuccess(result) =>
          LET dates == BlockDates
          IN  \A s \in Staff : \A i \in DOMAIN request.staff[s].unavailable_days :
                  \A d \in BlockDays :
                      dates[d] = request.staff[s].unavailable_days[i] => s \notin OnCall(d)
    /\ pc = "strict" =>
          SolverOutcomes(staff_members, scheduler)
              = SolverOutcomes(InBlockOnly(staff_members, scheduler), scheduler)

\* A successful result in which somebody with an unavailable date inside the
\* block and one outside it works on other days.
C4_Witness ==
    /\ IsSuccess(result)
    /\ \E s \in Staff :
          /\ \E i \in DOMAIN request.staff[s].unavailable_days :
                request.staff[s].unavailable_days[i] = InBlockDate
          /\ \E i \in DOMAIN request.staff[s].unavailable_days :
                request.staff[s].unavailable_days[i] = OutOfBlockDate
          /\ ShiftsOf(s, BlockDays) >= 2

\* C5: in every successful result with at least 2 staff the weekend shifts
\* of any two staff differ by at most 1, and so do their Friday shifts, both
\* as assigned and as reported in staff_assignments.
C5_Balance ==
    (IsSuccess(result) /\ Len(request.staff) >= 2) =>
        LET weekend_days == WeekendDays
            fridays == Fridays
            weekend == [s \in Staff |-> ShiftsOf(s, weekend_days)]
            friday  == [s \in Staff |-> ShiftsOf(s, fridays)]
            told    == result.staff_assignments
        IN  /\ \A s, t \in Staff :
                  weekend[s] - weekend[t] <= 1 /\ friday[s] - friday[t] <= 1
            /\ \A n, m \in DOMAIN told :
                  /\ told[n].weekend_shifts - told[m].weekend_shifts <= 1
                  /\ told[n].friday_shifts - told[m].friday_shifts <= 1

\* A successful result over a block with two Fridays in which one staff
\* member works a Friday and another works none.
C5_Witness ==
    /\ IsSuccess(result)
    /\ Cardinality(Fridays) = 2
    /\ \E s, t \in Staff : ShiftsOf(s, Fridays) = 1 /\ ShiftsOf(t, Fridays) = 0
    /\ \E s, t \in Staff : ShiftsOf(s, WeekendDays) = 1 /\ ShiftsOf(t, WeekendDays) = 0

\* C6: a successful result of the strict solve has every actual within
\* [max(0, target - 1), target + 1]; a successful result of the relaxed solve
\* has every actual at least 1.
C6_PhaseBounds ==
    IsSuccess(result) =>
        \A s \in Staff :
            LET actual == ShiftsOf(s, BlockDays)
                target == request.staff[s].target_shifts
            IN  /\ LastPhase = "strict" =>
                      actual >= Max(0, target - 1) /\ actual <= target + 1
                /\ LastPhase = "relaxed" => actual >= 1

\* The assignments the relaxed model of the specification admits: coverage,
\* no back-to-back, unavailability and both balances, and at least one shift
\* for everyone in place of the target band.
RelaxedSolutions(sm, sch) ==
    {x \in Prefixes(sm, sch, sch.num_days) :
        /\ \A s \in DOMAIN sm : SumOver(x, s, DOMAIN sch.dates) >= 1
        /\ WeekendBalance(sm, sch, x)
        /\ FridayBalance(sm, sch, x)}

\* C7: when the strict solve finds its model infeasible and the second solve
\* is not cut short by the time limit, a request for which some assignment
\* meets the relaxed model is answered with success.
C7_RelaxationSucceeds ==
    (/\ pc = "done"
     /\ Len(log) = 2
     /\ log[1].solver = "INFEASIBLE"
     /\ log[2].solver # "UNKNOWN"
     /\ RelaxedSolutions(staff_members, scheduler) # {})
        => response.status = Some("success")

\* C8: the strict solve runs first; the relaxed solve runs at most once and
\* only after a strict solve without success; a strict success is answered
\* without a relaxed solve; an error answer to a request that was solved
\* comes only after both solves failed; no request is solved more than twice.
C8_PhaseOrder ==
    /\ Len(log) <= 2
    /\ Len(log) >= 1 => log[1].phase = "strict"
    /\ Len(log) = 2 => log[2].phase = "relaxed" /\ log[1].status # "success"
    /\ (pc = "done" /\ Len(log) >= 1 /\ log[1].status = "success") =>
          Len(log) = 1 /\ response.status = Some("success")
    /\ (pc = "done" /\ response.http = 200 /\ response.status # Some("success")) =>
          /\ Len(log) = 2
          /\ log[1].status # "success"
          /\ log[2].status # "success"

\* A request answered with an error after a failed strict and a failed
\* relaxed solve.
C8_Witness ==
    /\ pc = "done"
    /\ Len(log) = 2
    /\ log[1].phase = "strict" /\ log[1].solver = "INFEASIBLE"
    /\ log[2].phase = "relaxed" /\ log[2].solver = "INFEASIBLE"
    /\ response.status = Some("error")

\* The requests the entry point is to refuse.
Refused(req) ==
    \/ req.num_days < MinNumDays \/ req.num_days > MaxNumDays
    \/ Len(req.staff) < 2
    \/ /\ \E i \in DOMAIN req.staff : req.staff[i].role = "Junior"
       /\ ~\E i \in DOMAIN req.staff : req.staff[i].role = "Senior"
    \/ \E i \in DOMAIN req.staff : req.staff[i].role \notin valid_roles
    \/ \E i \in DOMAIN req.staff : req.staff[i].target_shifts < MinTargetShifts
    \/ ~StrptimeOk(req.start_date)
    \/ \E i \in DOMAIN req.staff : \E k \in DOMAIN req.staff[i].unavailable_days :
          ~StrptimeOk(req.staff[i].unavailable_days[k])

\* The half of C9 that refuses: such a request is answered with a
\* validation error, no scheduler is built and nothing is solved.
RefusedWithoutSolve ==
    (pc = "done" /\ Refused(request)) =>
        /\ response.http \in {400, 422}
        /\ log = << >>
        /\ scheduler = NoScheduler
        /\ staff_members = << >>

\* C9: a request that is to be refused is answered with a validation error
\* without a scheduler or a solve, and every other request reaches the
\* strict solve.
C9_Validation ==
    /\ RefusedWithoutSolve
    /\ (pc = "done" /\ ~Refused(request)) => Len(log) >= 1

\* C10 as stated: after a failed strict and a failed relaxed solve the
\* response has status "no_solution", a message, and neither schedule nor
\* staff_assignments.
C10_NoSolutionStatus ==
    (pc = "done" /\ Len(log) = 2 /\ log[2].status # "success") =>
        /\ response.status = Some("no_solution")
        /\ response.message # None
        /\ response.schedule = None
        /\ response.staff_assignments = None

\* C10 amended: after a failed strict and a failed relaxed solve the
\* response has status "error", the scheduler's message, and neither
\* schedule nor staff_assignments.
C10_ErrorStatus ==
    (pc = "done" /\ Len(log) = 2 /\ log[2].status # "success") =>
        /\ response.http = 200
        /\ response.status = Some("error")
        /\ response.message = Some(NoSolutionMessage)
        /\ response.schedule = None
        /\ response.staff_assignments = None

\* A response after both solves found their model infeasible.
C10_Witness ==
    /\ pc = "done"
    /\ Len(log) = 2
    /\ log[1].solver = "INFEASIBLE"
    /\ log[2].solver = "INFEASIBLE"
    /\ response.message = Some(NoSolutionMessage)

RECURSIVE SumOf(_, _)
\* The sum of f over the finite set S.
SumOf(f, S) ==
    IF S = {} THEN 0
    ELSE LET e == CHOOSE e \in S : TRUE IN f[e] + SumOf(f, S \ {e})

\* How often the schedule map counts a date: a solo day once, a pair day
\* twice.
Weight(entry) == IF entry.kind = "dict" THEN 2 ELSE 1

\* How many staff_assignments entries list the date k in their days.
Listed(told, k) ==
    Cardinality({n \in DOMAIN told : \E i \in DOMAIN told[n].days : told[n].days[i] = k})

\* C11: in every successful result each date of the schedule map is listed
\* in the days of as many staff_assignments entries as the map counts it (a
\* solo day once, a pair day twice), and the reported actual values add up to
\* the number of solo days plus twice the number of pair days.
C11_RoundTrip ==
    IsSuccess(result) =>
        LET told == result.staff_assignments
            schedule == result.schedule
        IN  /\ \A k \in DOMAIN schedule : Listed(told, k) = Weight(schedule[k])
            /\ SumOf([n \in DOMAIN told |-> told[n].actual], DOMAIN told)
                  = SumOf([k \in DOMAIN schedule |-> Weight(schedule[k])], DOMAIN schedule)

\* The staff of the request have names of their own.
DistinctNames ==
    \A s, t \in Staff : request.staff[s].name = request.staff[t].name => s = t

\* The round trip of C11 for the requests whose staff have distinct names.
RoundTripOfDistinctNames == DistinctNames => C11_RoundTrip

\* The half of C12 on the staff records: once generate_schedule_with_relaxation
\* has returned, every staff record is as it was built from the request.
StaffUnchangedAfterReturn ==
    (pc = "done" /\ Len(log) >= 1) => staff_members = StaffMembers(request)

\* The target reported for staff s is the target_shifts of the request.
TargetReported(s) ==
    result.staff_assignments[request.staff[s].name].target
        = request.staff[s].target_shifts

\* C12: after generate_schedule_with_relaxation has returned, with or
\* without a relaxed solve, every staff record (name, role, target_shifts,
\* unavailable_days) is as it was before the call, and in every successful
\* result the target reported for each staff member is the target_shifts of
\* the request.
C12_StaffUnchanged ==
    /\ StaffUnchangedAfterReturn
    /\ IsSuccess(result) => \A s \in Staff : TargetReported(s)

\* The reported targets of C12 for the requests whose staff have distinct
\* names.
TargetReportedOfDistinctNames ==
    (IsSuccess(result) /\ DistinctNames) => \A s \in Staff : TargetReported(s)

\* Some day of the block has every Senior and every Intermediate of the
\* request unavailable.
OverConstrained ==
    LET dates == BlockDates
    IN  \E d \in BlockDays :
            \A s \in Staff :
                request.staff[s].role \in {"Senior", "Intermediate"} =>
                    \E i \in DOMAIN request.staff[s].unavailable_days :
                        request.staff[s].unavailable_days[i] = dates[d]

\* C14: for a request in which some day of the block has every Senior and
\* every Intermediate unavailable no solve succeeds, and once it is answered
\* both the strict and the relaxed solve have failed, the scheduler's result
\* is the no-solution failure, and the response carries no schedule.
C14_OverConstrained ==
    (Len(log) >= 1 /\ OverConstrained) =>
        /\ \A i \in DOMAIN log : log[i].status = "no_solution"
        /\ pc = "done" =>
              /\ Len(log) = 2
              /\ result = [status |-> "no_solution", message |-> NoSolutionMessage]
              /\ response.status # Some("success")
              /\ response.schedule = None
              /\ response.staff_assignments = None

\* An answered request of two Seniors who are both unavailable on one day of
\* the block, after both solves found their model infeasible.
C14_Witness ==
    /\ pc = "done"
    /\ OverConstrained
    /\ \A s \in Staff : request.staff[s].role = "Senior"
    /\ Len(log) = 2
    /\ log[1].solver = "INFEASIBLE"
    /\ log[2].solver = "INFEASIBLE"
    /\ response.http = 200

\* The shapes of a decoded day.
Solo(d) == Cardinality(OnCall(d)) = 1
Pair(d) ==
    /\ Cardinality(OnCall(d)) = 2
    /\ Cardinality(WithRole(OnCall(d), "Senior")) = 1
    /\ Cardinality(WithRole(OnCall(d), "Junior")) = 1
NameOf(s) == request.staff[s].name

\* The entries of C15 for the solo and the pair days.
RegularEntries ==
    LET dates == BlockDates
    IN  \A d \in BlockDays :
            LET entry == result.schedule[dates[d]]
            IN  /\ Solo(d) =>
                      \E s \in OnCall(d) : entry = [kind |-> "str", text |-> <<NameOf(s)>>]
                /\ Pair(d) =>
                      \E s \in WithRole(OnCall(d), "Senior") :
                      \E j \in WithRole(OnCall(d), "Junior") :
                          entry = [kind |-> "dict", senior |-> NameOf(s),
                                   junior |-> NameOf(j),
                                   display |-> <<NameOf(s), " (Sr) + ", NameOf(j), " (Jr)">>]

\* C15 as stated: the decoder emits the solo name for a day of one assigned
\* staff and the pair record for a day of one Senior with one Junior, and for
\* values with any other day it fails instead of emitting a schedule.
C15_DecodeInvariant ==
    pc = "decoded" =>
        IF \A d \in BlockDays : Solo(d) \/ Pair(d)
        THEN IsSuccess(result) /\ RegularEntries
        ELSE ~IsSuccess(result)

\* C15 amended: the decoder never fails; it emits the solo name for a day of
\* one assigned staff, the pair record for a day of one Senior with one
\* Junior, the names joined by " + " in staff order for two assigned that are
\* no Senior with a Junior, and "Unassigned" for a day with nobody or more
\* than two assigned.
C15_Fallback ==
    pc = "decoded" =>
        /\ IsSuccess(result)
        /\ RegularEntries
        /\ LET dates == BlockDates
           IN  \A d \in BlockDays :
                   LET entry == result.schedule[dates[d]]
                       W == OnCall(d)
                   IN  /\ (Cardinality(W) = 2 /\ ~Pair(d)) =>
                             entry = [kind |-> "str",
                                      text |-> <<NameOf(MinOf(W)), " + ", NameOf(MaxOf(W))>>]
                       /\ (Cardinality(W) = 0 \/ Cardinality(W) > 2) =>
                             entry = [kind |-> "str", text |-> <<"Unassigned">>]

\* Decoded values with a day of two Intermediates and a day with nobody.
C15_Witness ==
    /\ pc = "decoded"
    /\ \E d \in BlockDays :
          Cardinality(OnCall(d)) = 2 /\ WithRole(OnCall(d), "Intermediate") = OnCall(d)
    /\ \E d \in BlockDays : OnCall(d) = {}

\* C16: validate_schedule_request answers valid = true for a request if and
\* only if generate_schedule goes on to the strict solve with it.
C16_EndpointsAgree ==
    (validation # NoValidation /\ pc # "received") =>
        ((validation.http = 200 /\ validation.valid) <=> pc = "strict")

\* The agreement of C16 for the requests without a blank name whose block
\* ends within the calendar.
AgreeWithoutBlankOrOverflow ==
    (/\ validation # NoValidation
     /\ pc # "received"
     /\ \A s \in Staff : Strip(request.staff[s].name) # ""
     /\ response.http # 500) =>
        ((validation.http = 200 /\ validation.valid) <=> pc = "strict")

\* C13: no two rows of the staff table have the same name, whatever
\* requests were handled and in whatever order those in flight together
\* were taken.
C13_UniqueNames ==
    \A row, other \in store : row.name = other.name => row = other

\* A table of two rows after a create was refused for its name while
\* another request was in flight.
C13_Witness ==
    /\ Cardinality(store) = 2
    /\ handled.kind = "create"
    /\ handled.http = 400
    /\ handled.detail = "Name already exists"
    /\ \E c \in Clients : inflight[c] # NoRequest

\* A handler has answered in this step.
HandlerStep ==
    \E c \in Clients : inflight[c] # NoRequest /\ inflight'[c] = NoRequest

\* C17: a roster request that is refused (a create for its role or its
\* name, an update for its id, its name or its role, a delete for its id)
\* leaves the rows of the staff table as they were.
C17_RefusedLeavesStore ==
    [][(HandlerStep /\ handled'.http \in {400, 404}) => store' = store]_vars

\* An update with a new name and an invalid role was refused after the
\* session had taken the new name, with a row in the table.
C17_Witness ==
    /\ store # {}
    /\ handled.kind = "update"
    /\ handled.http = 400
    /\ handled.detail = "Invalid role"
    /\ handled.dirty

====
